---- MODULE Spec2Model ----
(***************************************************************************)
(* Model of the ectocore patch tools (testfiles/tools): the slice planner  *)
(* and exporter (slicing.py), the .wav.info codec (ectocore_info.py), the  *)
(* reference writer of the byte-for-byte regression test                   *)
(* (test_info_roundtrip.py) and the build script (build_patch.py).         *)
(*                                                                         *)
(* The tools are synchronous functions.  Each specification below draws    *)
(* the arguments of one group of functions in its initial state and has    *)
(* one action per function, which stores what the function returns (or     *)
(* the exception it raises); SpecBuild follows build_from_config through   *)
(* its planning, rendering and packaging steps.  Variables that a          *)
(* specification does not use stay at None.                                *)
(*                                                                         *)
(* Floating point: the millisecond/second to sample conversions are        *)
(* modelled in exact rational arithmetic with Python's round-half-to-even; *)
(* all inputs of the model are integers small enough for the float         *)
(* computation to be exact up to that rounding.                            *)
(***************************************************************************)
EXTENDS Integers, Sequences, FiniteSets, TLC

VARIABLES
    manual_args,      \* arguments of plan_manual_slices
    manual_ret,       \* its SlicePlan, or the SliceConfigError it raised
    plan_args,        \* arguments of plan_slices
    plan_ret,         \* its SlicePlan, or the SliceConfigError it raised
    content,          \* the InfoContent handed to the codec
    python_bytes,     \* what build_payload returned or raised
    firmware_bytes,   \* what pack_like_firmware returned or raised
    flags_val,        \* result of _pack_flags
    splice_val,       \* result of _pack_splice
    normalized,       \* result of _normalize_transients(content.transients)
    renormalized,     \* result of normalizing 16 * normalized again
    label_args,       \* a slice index and the "labels" entry of a config
    labels,           \* result of _labels_from_config
    slice_type_ret,   \* what _slice_type returned or raised
    export_args,      \* arguments of export_slices
    export_ret,       \* its written list and the files it emitted, or its error
    build_cfg,        \* the PATCH_CONFIG and patch directory of a build
    build,            \* position and locals of build_from_config
    fs                \* the wav/ and info/ directories and patch.zip of the build

tool_vars == <<manual_args, manual_ret, plan_args, plan_ret, content, python_bytes,
               firmware_bytes, flags_val, splice_val, normalized, renormalized>>

build_vars == <<label_args, labels, slice_type_ret, export_args, export_ret,
                build_cfg, build, fs>>

vars == <<tool_vars, build_vars>>

None == [kind |-> "none"]

\* The variables of the build script are unused.
BuildIdle ==
    /\ label_args = None /\ labels = None /\ slice_type_ret = None
    /\ export_args = None /\ export_ret = None
    /\ build_cfg = None /\ build = None /\ fs = None

\* The variables of the planners and of the codec are unused.
ToolsIdle ==
    /\ manual_args = None /\ manual_ret = None
    /\ plan_args = None /\ plan_ret = None
    /\ content = None /\ python_bytes = None /\ firmware_bytes = None
    /\ flags_val = None /\ splice_val = None
    /\ normalized = None /\ renormalized = None

(***************************************************************************)
(* Bounds of the model.                                                    *)
(***************************************************************************)
MaxEntries == 2      \* manual slice entries per config

(***************************************************************************)
(* Python helpers.                                                         *)
(***************************************************************************)
Max(a, b) == IF a >= b THEN a ELSE b
Min(a, b) == IF a <= b THEN a ELSE b

\* int(round(p / q)) for q > 0: Python 3 rounds halves to the even neighbour.
PyRound(p, q) ==
    LET f == p \div q
        r == p % q
    IN  IF 2 * r < q THEN f
        ELSE IF 2 * r > q THEN f + 1
        ELSE IF f % 2 = 0 THEN f ELSE f + 1

\* slicing.py _ms_to_samples: int(round(value_ms / 1000.0 * sample_rate))
MsToSamples(value_ms, sr) == PyRound(value_ms * sr, 1000)

SeqsUpTo(S, n) == UNION {[1..k -> S] : k \in 0..n}

(***************************************************************************)
(* slicing.py: plan_manual_slices                                          *)
(***************************************************************************)
SliceConfigError(msg) == [kind |-> "SliceConfigError", msg |-> msg]
SlicePlan(slices, sr, mono) ==
    [kind |-> "plan", slices |-> slices, sample_rate |-> sr, mono |-> mono]
Slice(start, stop) == [start |-> start, stop |-> stop]

\* First loop (lines 153-159): resolve both edges of every entry, in order;
\* the first entry that lacks a key or has end <= start raises.
RECURSIVE ResolveEdges(_, _, _, _)
ResolveEdges(slice_cfg, sr, i, acc) ==
    IF i > Len(slice_cfg) THEN [kind |-> "ok", pairs |-> acc]
    ELSE LET entry == slice_cfg[i] IN
         IF "start_ms" \notin DOMAIN entry
         THEN SliceConfigError("Manual slice is missing 'start_ms'")
         ELSE IF "end_ms" \notin DOMAIN entry
         THEN SliceConfigError("Manual slice is missing 'end_ms'")
         ELSE LET start == MsToSamples(entry.start_ms, sr)
                  end   == MsToSamples(entry.end_ms, sr)
              IN  IF end <= start
                  THEN SliceConfigError("Manual slice end_ms must be greater than start_ms")
                  ELSE ResolveEdges(slice_cfg, sr, i + 1, Append(acc, <<start, end>>))

\* sorted(zip(starts, stops), key=lambda x: x[0]): stable, by start only.
RECURSIVE InsertByStart(_, _)
InsertByStart(sorted, p) ==
    IF sorted = <<>> THEN <<p>>
    ELSE IF p[1] < sorted[1][1] THEN <<p>> \o sorted
    ELSE <<sorted[1]>> \o InsertByStart(Tail(sorted), p)

RECURSIVE SortedByStart(_)
SortedByStart(pairs) ==
    IF pairs = <<>> THEN <<>>
    ELSE InsertByStart(SortedByStart(SubSeq(pairs, 1, Len(pairs) - 1)),
                       pairs[Len(pairs)])

\* One iteration's clamp (lines 168-169).
ClampStart(start, total_length) == Max(0, Min(start, total_length - 1))
ClampStop(start, stop, total_length) == Max(start + 1, Min(stop, total_length))

\* Second loop (lines 165-171): the raw start is compared with the previous
\* CLAMPED stop, then both edges are clamped.
RECURSIVE NormalizeManual(_, _, _, _, _)
NormalizeManual(combined, total_length, i, last_stop, acc) ==
    IF i > Len(combined) THEN [kind |-> "ok", slices |-> acc]
    ELSE IF combined[i][1] < last_stop
    THEN SliceConfigError("Manual slices must be non-overlapping and ordered")
    ELSE LET start == ClampStart(combined[i][1], total_length)
             stop  == ClampStop(start, combined[i][2], total_length)
         IN  NormalizeManual(combined, total_length, i + 1, stop,
                             Append(acc, Slice(start, stop)))

plan_manual_slices(slice_cfg, sr, total_length, mono) ==
    LET edges == ResolveEdges(slice_cfg, sr, 1, <<>>) IN
    IF edges.kind # "ok" THEN edges
    ELSE LET n == NormalizeManual(SortedByStart(edges.pairs), total_length, 1, 0, <<>>) IN
         IF n.kind # "ok" THEN n
         ELSE IF n.slices = <<>> THEN SliceConfigError("No manual slices provided")
         ELSE SlicePlan(n.slices, sr, mono)

\* Inputs of the manual planner.
MsValues == {0, 50, 100, 150}
ManualEntries ==
    {[start_ms |-> s, end_ms |-> e] : s \in MsValues, e \in MsValues}
    \cup {[start_ms |-> 0], [end_ms |-> 50]}
ManualSampleRates == {10, 1000}
TotalLengths == {0, 1, 2, 50, 100, 200}

InitManual ==
    /\ BuildIdle
    /\ \E cfg \in SeqsUpTo(ManualEntries, MaxEntries), sr \in ManualSampleRates,
          tl \in TotalLengths, m \in BOOLEAN :
          manual_args = [slice_cfg |-> cfg, sample_rate |-> sr,
                         total_length |-> tl, mono |-> m]
    /\ manual_ret = None
    /\ plan_args = None /\ plan_ret = None
    /\ content = None /\ python_bytes = None /\ firmware_bytes = None
    /\ flags_val = None /\ splice_val = None
    /\ normalized = None /\ renormalized = None

PlanManualSlices ==
    /\ manual_args # None /\ manual_ret = None
    /\ manual_ret' = plan_manual_slices(manual_args.slice_cfg, manual_args.sample_rate,
                                        manual_args.total_length, manual_args.mono)
    /\ UNCHANGED <<manual_args, plan_args, plan_ret, content, python_bytes,
                   firmware_bytes, flags_val, splice_val, normalized, renormalized>>
    /\ UNCHANGED build_vars

NextManual == PlanManualSlices

SpecManual == InitManual /\ [][NextManual]_vars

(***************************************************************************)
(* slicing.py: _find_transients and plan_slices                            *)
(***************************************************************************)
MaxSigLen == 3       \* frames in the signal buffer
MaxTarget == 3       \* largest target_slices
MaxExplicit == 2     \* entries of explicit_seconds

Abs(x) == IF x < 0 THEN -x ELSE x

\* slicing.py _to_samples: int(round(value_seconds * sample_rate)).  The model
\* gives second offsets in thousandths of a second.
ToSamples(value_millis, sr) == PyRound(value_millis * sr, 1000)

RECURSIVE SumRange(_, _, _)
SumRange(s, lo, hi) == IF lo > hi THEN 0 ELSE s[lo] + SumRange(s, lo + 1, hi)

RECURSIVE SeqMax(_)
SeqMax(s) == IF Len(s) = 1 THEN s[1] ELSE Max(s[1], SeqMax(Tail(s)))

\* np.convolve(envelope, ones(window) / window, mode="same"), times window:
\* the output has max(N, window) entries and entry i (0-based) is entry
\* i + (min(N, window) - 1) div 2 of the full convolution.
Smoothed(envelope, window) ==
    LET N   == Len(envelope)
        L   == Max(N, window)
        off == (Min(N, window) - 1) \div 2
    IN  [i \in 1..L |->
            LET k == (i - 1) + off     \* 0-based index into the full convolution
            IN  SumRange(envelope, Max(0, k - window + 1) + 1, Min(k, N - 1) + 1)]

\* Lines 85-93: the scan.  thr is <<num, den>>, the linear factor
\* 10 ** (threshold_db / 20.0); value >= peak * factor is decided on the
\* window sums, the division by window cancelling on both sides.
RECURSIVE ScanTransients(_, _, _, _, _, _, _, _)
ScanTransients(smoothed, peak, thr, min_gap, max_slices, idx, last, indices) ==
    IF idx >= Len(smoothed) THEN indices
    ELSE IF smoothed[idx + 1] * thr[2] >= peak * thr[1] /\ (idx - last) >= min_gap
    THEN IF Len(indices) + 1 >= max_slices
         THEN Append(indices, idx)
         ELSE ScanTransients(smoothed, peak, thr, min_gap, max_slices, idx + 1, idx,
                             Append(indices, idx))
    ELSE ScanTransients(smoothed, peak, thr, min_gap, max_slices, idx + 1, last, indices)

find_transients(mono_signal, sr, thr, min_gap_ms, window_ms, max_slices) ==
    LET envelope == [i \in 1..Len(mono_signal) |-> Abs(mono_signal[i])] IN
    IF Len(envelope) = 0 THEN <<0>>
    ELSE LET window   == Max(1, PyRound(sr * window_ms, 1000))
             smoothed == Smoothed(envelope, window)
             peak     == SeqMax(smoothed)
         IN  IF peak = 0 THEN <<0>>
             ELSE LET min_gap == PyRound(sr * min_gap_ms, 1000)
                      indices == ScanTransients(smoothed, peak, thr, min_gap,
                                                max_slices, 0, -min_gap, <<>>)
                  IN  IF indices = <<>> THEN <<0>> ELSE indices

SetMin(S) == CHOOSE x \in S : \A y \in S : x <= y

RECURSIVE SortedSet(_)
SortedSet(S) == IF S = {} THEN <<>>
                ELSE <<SetMin(S)>> \o SortedSet(S \ {SetMin(S)})

InSeq(x, s) == \E i \in 1..Len(s) : s[i] = x

\* Line 109: the explicit branch is taken only for a non-empty list; every
\* other call runs _find_transients.
UsesExplicit(a) == a.strategy = "explicit" /\ a.explicit_seconds # <<>>

\* Lines 109-123: the slice starts before the cap.
PlanStarts(a) ==
    IF UsesExplicit(a)
    THEN LET starts == SortedSet({ToSamples(a.explicit_seconds[i], a.sample_rate) :
                                     i \in 1..Len(a.explicit_seconds)})
         IN  IF ~InSeq(0, starts) THEN <<0>> \o starts ELSE starts
    ELSE LET starts == find_transients(a.signal.chan0, a.sample_rate, a.threshold,
                                       a.min_gap_ms, a.window_ms, a.target_slices)
         IN  IF starts[1] # 0 THEN <<0>> \o starts ELSE starts

\* [Slice(s, e) for s, e in zip(starts, stops) if e > s]
RECURSIVE KeepNonEmpty(_, _, _)
KeepNonEmpty(starts, stops, i) ==
    IF i > Len(starts) THEN <<>>
    ELSE (IF stops[i] > starts[i] THEN <<Slice(starts[i], stops[i])>> ELSE <<>>)
         \o KeepNonEmpty(starts, stops, i + 1)

plan_slices(a) ==
    LET all       == PlanStarts(a)
        starts    == SubSeq(all, 1, Min(Len(all), a.target_slices))
        total_len == Len(a.signal.chan0)
    IN  IF starts[Len(starts)] >= total_len
        THEN SliceConfigError("Slice start exceeds buffer length")
        ELSE LET stops  == Tail(starts) \o <<total_len>>
                 slices == KeepNonEmpty(starts, stops, 1)
             IN  IF Len(slices) = 0
                 THEN SliceConfigError("No slices could be created")
                 ELSE SlicePlan(slices, a.sample_rate, a.signal.channels = 1)

\* Inputs of the heuristic planner.  A signal is its first channel (the only
\* one the planner reads) and its channel count.
Amplitudes == {0, 1, -2}
Signals == {[chan0 |-> s, channels |-> c] : s \in SeqsUpTo(Amplitudes, MaxSigLen),
                                            c \in {1, 2}}
ConstSignals == {[chan0 |-> [i \in 1..n |-> 1], channels |-> c] : n \in 0..MaxSigLen,
                                                                  c \in {1, 2}}
PlanSampleRates == {500, 1000}
\* Linear threshold factors 10 ** (threshold_db / 20): 0 dB, -6.02 dB, +6.02 dB,
\* and about -32 dB (DEFAULT_THRESHOLD_DB), as <<numerator, denominator>>.
Thresholds == {<<1, 1>>, <<1, 2>>, <<2, 1>>, <<1, 40>>}
WindowMs == {1, 4}
MinGapMs == {0, 2, 4}
ExplicitMillis == {-2, 0, 1, 2, 3}

PlanArgs(sig, sr, strat, tgt, thr, gap, win, ex) ==
    [signal |-> sig, sample_rate |-> sr, strategy |-> strat, target_slices |-> tgt,
     threshold |-> thr, min_gap_ms |-> gap, window_ms |-> win, explicit_seconds |-> ex]

InitPlan ==
    /\ BuildIdle
    /\ \/ \E sig \in Signals, sr \in PlanSampleRates, tgt \in 1..MaxTarget,
             thr \in Thresholds, gap \in MinGapMs, win \in WindowMs :
             plan_args = PlanArgs(sig, sr, "transient", tgt, thr, gap, win, <<>>)
       \/ \E sig \in Signals, sr \in PlanSampleRates, tgt \in 1..MaxTarget :
             plan_args = PlanArgs(sig, sr, "explicit", tgt, <<1, 2>>, 2, 1, <<>>)
       \/ \E sig \in ConstSignals, sr \in PlanSampleRates, tgt \in 1..MaxTarget,
             ex \in SeqsUpTo(ExplicitMillis, MaxExplicit) \ {<<>>} :
             plan_args = PlanArgs(sig, sr, "explicit", tgt, <<1, 2>>, 2, 1, ex)
    /\ plan_ret = None
    /\ manual_args = None /\ manual_ret = None
    /\ content = None /\ python_bytes = None /\ firmware_bytes = None
    /\ flags_val = None /\ splice_val = None
    /\ normalized = None /\ renormalized = None

PlanSlices ==
    /\ plan_args # None /\ plan_ret = None
    /\ plan_ret' = plan_slices(plan_args)
    /\ UNCHANGED <<manual_args, manual_ret, plan_args, content, python_bytes,
                   firmware_bytes, flags_val, splice_val, normalized, renormalized>>
    /\ UNCHANGED build_vars

NextPlan == PlanSlices

SpecPlan == InitPlan /\ [][NextPlan]_vars

(***************************************************************************)
(* ectocore_info.py: the .wav.info codec                                   *)
(***************************************************************************)
MAX_TRANSIENTS == 16
MaxSliceNum == 255       \* slice_num must fit in uint8
MaxSlices == 1           \* entries of each short slice array
MaxLevels == 4           \* transient levels handed to the normalizer

Pow2(n) == 2 ^ n
SAMPLEINFOPACK_SIZE == 4 + 4 + 2 + 1

\* The packed words are Python integers of arbitrary size; a 32-bit word does
\* not fit the checker's integers, so a non-negative integer is held as its
\* bits, least significant first and without leading zeros.
RECURSIVE Word(_)
Word(n) == IF n = 0 THEN <<>> ELSE <<n % 2>> \o Word(n \div 2)

BitAt(w, i) == IF i <= Len(w) THEN w[i] ELSE 0

\* Python's | and << on non-negative integers.
BitOr(a, b) == [i \in 1..Max(Len(a), Len(b)) |-> Max(BitAt(a, i), BitAt(b, i))]
ShiftLeft(a, n) == IF a = <<>> THEN <<>> ELSE [i \in 1..n |-> 0] \o a

\* (w >> offset) & (2^bits - 1), as an integer (bits <= 16).
RECURSIVE Field(_, _, _)
Field(w, offset, bits) ==
    IF bits = 0 THEN 0
    ELSE BitAt(w, offset + 1) + 2 * Field(w, offset + 1, bits - 1)

\* Python's & with the mask 2^bits - 1 on any integer (two's complement).
MaskBits(a, bits) == a % Pow2(bits)
\* Python truthiness: `1 if x else 0` of a bool, and of an int.
Truth(b) == IF b THEN 1 ELSE 0
NonZero(n) == IF n # 0 THEN 1 ELSE 0

StructError == [kind |-> "struct.error"]
ValueError(msg) == [kind |-> "ValueError", msg |-> msg]
Bytes(b) == [kind |-> "bytes", bytes |-> b]

\* Little-endian two's complement bytes of an integer (floor division).
LittleEndian(v, n) == [i \in 1..n |-> (v \div Pow2(8 * (i - 1))) % 256]

\* struct.pack("<I" / "<H" / "<B", w) of a word: struct.error when it needs
\* more than n bytes.
StructPackWord(w, n) ==
    IF Len(w) > 8 * n THEN StructError
    ELSE Bytes([i \in 1..n |-> Field(w, 8 * (i - 1), 8)])

\* struct.pack("<" + fmt, v) of an integer: the bytes, or struct.error when v
\* is out of range.  Every integer of the model lies within int32.
StructPack(fmt, v) ==
    CASE fmt = "I" -> IF v < 0 THEN StructError ELSE StructPackWord(Word(v), 4)
      [] fmt = "H" -> IF v < 0 THEN StructError ELSE StructPackWord(Word(v), 2)
      [] fmt = "B" -> IF v < 0 THEN StructError ELSE StructPackWord(Word(v), 1)
      [] fmt = "i" -> Bytes(LittleEndian(v, 4))
      [] fmt = "b" -> IF v < -Pow2(7) \/ v >= Pow2(7) THEN StructError
                      ELSE Bytes(LittleEndian(v, 1))

\* Successive writes to the buffer: the first failing pack raises.
Concat(a, b) ==
    IF a.kind # "bytes" THEN a
    ELSE IF b.kind # "bytes" THEN b
    ELSE Bytes(a.bytes \o b.bytes)

\* struct.calcsize of the one-value formats.
CalcSize(fmt) ==
    CASE fmt = "I" -> 4
      [] fmt = "H" -> 2
      [] fmt = "B" -> 1
      [] fmt = "i" -> 4
      [] fmt = "b" -> 1

\* The loop `for v in values[i:]: buf.extend(struct.pack(fmt, v))`: the
\* earliest failing pack raises, otherwise the packed values follow each other.
PackAll(fmt, values, i) ==
    LET packed == [k \in 1..Len(values) |-> StructPack(fmt, values[k])]
        failing == {k \in i..Len(values) : packed[k].kind # "bytes"}
        n == CalcSize(fmt)
    IN  IF failing # {} THEN packed[CHOOSE k \in failing : \A m \in failing : k <= m]
        ELSE Bytes([j \in 1..(n * (Len(values) - i + 1)) |->
                        packed[i + ((j - 1) \div n)].bytes[1 + ((j - 1) % n)]])

\* _pack_flags with tempo_match written at one_shot's bit.
pack_flags_same_bit(flags) ==
    LET bpm == Max(0, Min(flags.bpm, 510))
        version == Max(0, Min(flags.version, 127))
    IN  BitOr(BitOr(BitOr(Word(bpm), ShiftLeft(Word(Truth(flags.one_shot)), 12)),
                    ShiftLeft(Word(Truth(flags.tempo_match)), 12)),
              ShiftLeft(Word(version), 16))

\* _pack_flags with play_mode shifted by 8 instead of 9.
pack_flags_overlap(flags) ==
    LET bpm == Max(0, Min(flags.bpm, 510))
        play_mode == Max(0, Min(flags.play_mode, 7))
        version == Max(0, Min(flags.version, 127))
        reserved == Max(0, Min(flags.reserved, 511))
        p1 == BitOr(Word(bpm), ShiftLeft(Word(play_mode), 8))
        p2 == BitOr(p1, ShiftLeft(Word(Truth(flags.one_shot)), 12))
        p3 == BitOr(p2, ShiftLeft(Word(Truth(flags.tempo_match)), 13))
        p4 == BitOr(p3, ShiftLeft(Word(Truth(flags.oversampling)), 14))
        p5 == BitOr(p4, ShiftLeft(Word(NonZero(flags.num_channels)), 15))
        p6 == BitOr(p5, ShiftLeft(Word(version), 16))
    IN  BitOr(p6, ShiftLeft(Word(reserved), 23))

pack_flags(flags) ==
    LET bpm == Max(0, Min(flags.bpm, 510))
        play_mode == Max(0, Min(flags.play_mode, 7))
        one_shot == Truth(flags.one_shot)
        tempo_match == Truth(flags.tempo_match)
        oversampling == Truth(flags.oversampling)
        num_channels == NonZero(flags.num_channels)
        version == Max(0, Min(flags.version, 127))
        reserved == Max(0, Min(flags.reserved, 511))
        p1 == BitOr(Word(bpm), ShiftLeft(Word(play_mode), 9))
        p2 == BitOr(p1, ShiftLeft(Word(one_shot), 12))
        p3 == BitOr(p2, ShiftLeft(Word(tempo_match), 13))
        p4 == BitOr(p3, ShiftLeft(Word(oversampling), 14))
        p5 == BitOr(p4, ShiftLeft(Word(num_channels), 15))
        p6 == BitOr(p5, ShiftLeft(Word(version), 16))
    IN  BitOr(p6, ShiftLeft(Word(reserved), 23))

pack_splice(flags) ==
    LET trigger == Max(0, Min(flags.splice_trigger, 32767))
        variable == Truth(flags.splice_variable)
    IN  BitOr(Word(trigger), ShiftLeft(Word(variable), 15))

\* Lines 98-100 with an over-range value clamped instead of zeroed.
ScaleRawClamped(value) ==
    LET scaled == value \div 16 IN IF scaled > 65535 THEN 65535 ELSE scaled

\* Lines 98-100 with the wrong scale.
ScaleRawBy8(value) ==
    LET scaled == value \div 8 IN IF scaled > 65535 THEN 0 ELSE scaled

\* Lines 98-100: scaled = value // 16, and 0 when above 0xFFFF.
ScaleRaw(value) ==
    LET scaled == value \div 16 IN IF scaled > 65535 THEN 0 ELSE scaled

\* Lines 93-105: one level; the scan stops once MAX_TRANSIENTS are kept.
RECURSIVE NormalizeLevel(_, _, _)
NormalizeLevel(level, i, clamped) ==
    IF i > Len(level) THEN clamped
    ELSE IF level[i] <= 0 THEN NormalizeLevel(level, i + 1, clamped)
    ELSE IF ScaleRaw(level[i]) = 0 THEN NormalizeLevel(level, i + 1, clamped)
    ELSE IF Len(clamped) + 1 >= MAX_TRANSIENTS THEN Append(clamped, ScaleRaw(level[i]))
    ELSE NormalizeLevel(level, i + 1, Append(clamped, ScaleRaw(level[i])))

normalize_transients(levels) ==
    LET normalized_all == [i \in 1..Len(levels) |-> NormalizeLevel(levels[i], 1, <<>>)]
        padded == normalized_all \o [i \in 1..(3 - Len(levels)) |-> <<>>]
    IN  SubSeq(padded, 1, 3)

RECURSIVE SumLens(_)
SumLens(levels) == IF levels = <<>> THEN 0 ELSE Len(levels[1]) + SumLens(Tail(levels))

\* _calculate_size without the three uint16 counts.
calculate_size_no_counts(c, normalized_transients) ==
    LET base == SAMPLEINFOPACK_SIZE + Len(c.slice_starts) * (4 + 4 + 1) IN
    IF c.flags.version >= 1 THEN base + SumLens(normalized_transients) * 2 ELSE base

calculate_size(c, normalized_transients) ==
    LET slice_num == Len(c.slice_starts)
        base == SAMPLEINFOPACK_SIZE + slice_num * (4 + 4 + 1)
    IN  IF c.flags.version >= 1
        THEN base + 3 * 2 + SumLens(normalized_transients) * 2
        ELSE base

\* Lines 145-150 with slice_type written as a 16-bit value.
WriteSlicesWideTypes(c) ==
    Concat(PackAll("i", c.slice_starts, 1),
           Concat(PackAll("i", c.slice_stops, 1), PackAll("H", c.slice_types, 1)))

\* Lines 145-150: starts, stops (int32 each), then types (int8 each).
WriteSlices(c) ==
    Concat(PackAll("i", c.slice_starts, 1),
           Concat(PackAll("i", c.slice_stops, 1), PackAll("b", c.slice_types, 1)))

RECURSIVE Flatten(_)
Flatten(levels) == IF levels = <<>> THEN <<>> ELSE levels[1] \o Flatten(Tail(levels))

\* Lines 152-157: counts, then the values level by level, when version >= 1.
WriteTransients(c, transients) ==
    IF c.flags.version >= 1
    THEN Concat(PackAll("H", [i \in 1..Len(transients) |-> Len(transients[i])], 1),
                PackAll("H", Flatten(transients), 1))
    ELSE Bytes(<<>>)

\* Line 130 with the limit tested by >= instead of >.
SliceNumTooLargeFrom255(slice_num) == slice_num >= MaxSliceNum

\* Line 130: slice_num > 255.
SliceNumTooLarge(slice_num) == slice_num > MaxSliceNum

build_payload(c) ==
    LET slice_num == Len(c.slice_starts) IN
    IF ~(Len(c.slice_starts) = Len(c.slice_stops) /\ Len(c.slice_stops) = Len(c.slice_types))
    THEN ValueError("slice arrays must have the same length")
    ELSE IF SliceNumTooLarge(slice_num)
    THEN ValueError("slice_num must fit in uint8 (max 255)")
    ELSE LET transients == normalize_transients(c.transients)
             expected_struct_size == calculate_size(c, transients)
             header == Concat(StructPack("I", c.size_bytes),
                       Concat(StructPackWord(pack_flags(c.flags), 4),
                       Concat(StructPackWord(pack_splice(c.flags), 2),
                              StructPack("B", slice_num))))
             payload == Concat(header, Concat(WriteSlices(c), WriteTransients(c, transients)))
         IN  IF payload.kind # "bytes" THEN payload
             ELSE IF Len(payload.bytes) # expected_struct_size
             THEN ValueError("payload size does not match expected struct size")
             ELSE payload

(***************************************************************************)
(* test_info_roundtrip.py: the reference writer                            *)
(***************************************************************************)
ref_pack_flags(flags) ==
    LET bpm == Min(Max(flags.bpm, 0), 510)
        play_mode == Min(Max(flags.play_mode, 0), 7)
        version == Min(Max(flags.version, 0), 127)
        reserved == Min(Max(flags.reserved, 0), 511)
        p1 == BitOr(Word(bpm), ShiftLeft(Word(play_mode), 9))
        p2 == BitOr(p1, ShiftLeft(Word(Truth(flags.one_shot)), 12))
        p3 == BitOr(p2, ShiftLeft(Word(Truth(flags.tempo_match)), 13))
        p4 == BitOr(p3, ShiftLeft(Word(Truth(flags.oversampling)), 14))
        p5 == BitOr(p4, ShiftLeft(Word(NonZero(flags.num_channels)), 15))
        p6 == BitOr(p5, ShiftLeft(Word(version), 16))
    IN  BitOr(p6, ShiftLeft(Word(reserved), 23))

\* Lines 34-53: the test's own copy of the normalizer (bucket cap 16).
RECURSIVE RefNormalizeLevel(_, _, _)
RefNormalizeLevel(level, i, bucket) ==
    IF i > Len(level) THEN bucket
    ELSE LET value == level[i]
             scaled == IF value \div 16 > 65535 THEN 0 ELSE value \div 16
         IN  IF value <= 0 \/ scaled = 0 THEN RefNormalizeLevel(level, i + 1, bucket)
             ELSE IF Len(bucket) + 1 >= 16 THEN Append(bucket, scaled)
             ELSE RefNormalizeLevel(level, i + 1, Append(bucket, scaled))

ref_normalize_transients(levels) ==
    SubSeq([i \in 1..Len(levels) |-> RefNormalizeLevel(levels[i], 1, <<>>)]
               \o [i \in 1..(3 - Len(levels)) |-> <<>>], 1, 3)

pack_like_firmware(c) ==
    LET transients == ref_normalize_transients(c.transients)
        slice_num == Len(c.slice_starts)
        splice == BitOr(Word(MaskBits(c.flags.splice_trigger, 15)),
                        ShiftLeft(Word(Truth(c.flags.splice_variable)), 15))
        header == Concat(StructPack("I", c.size_bytes),
                  Concat(StructPackWord(ref_pack_flags(c.flags), 4),
                  Concat(StructPackWord(splice, 2), StructPack("B", slice_num))))
    IN  Concat(header, Concat(WriteSlices(c), WriteTransients(c, transients)))

(***************************************************************************)
(* Inputs of the codec.                                                    *)
(***************************************************************************)
InfoFlags(bpm, pm, os, tm, ov, nc, ver, res, trig, var) ==
    [bpm |-> bpm, play_mode |-> pm, one_shot |-> os, tempo_match |-> tm,
     oversampling |-> ov, num_channels |-> nc, version |-> ver, reserved |-> res,
     splice_trigger |-> trig, splice_variable |-> var]

InfoContent(size, flags, starts, stops, types, transients) ==
    [kind |-> "InfoContent", size_bytes |-> size, flags |-> flags,
     slice_starts |-> starts, slice_stops |-> stops, slice_types |-> types,
     transients |-> transients]

\* The fixture of test_bytes_match.
FixtureFlags == InfoFlags(155, 0, TRUE, TRUE, FALSE, 0, 1, 0, 24, FALSE)
FixtureTransients == <<<<480, 960>>, <<1200>>, <<>>>>
Fixture == InfoContent(6400, FixtureFlags, <<0>>, <<6396>>, <<1>>, FixtureTransients)

Zeros(n) == [i \in 1..n |-> 0]

CodecTransients == {FixtureTransients, <<>>,
                    <<<<16>>, <<0, 15, 1048576, 32>>, <<>>, <<48>>>>}

InitCodec ==
    /\ BuildIdle
    /\ \/ \E size \in {6400, -1}, bpm \in {-5, 155, 600}, ver \in {0, 1, 200},
             trig \in {-1, 24, 32768}, var \in BOOLEAN,
             starts \in SeqsUpTo({0, -6400}, MaxSlices),
             stops \in SeqsUpTo({6396}, MaxSlices),
             types \in SeqsUpTo({1, -129}, MaxSlices),
             tr \in CodecTransients :
             content = InfoContent(size, InfoFlags(bpm, 0, TRUE, TRUE, FALSE, 0, ver,
                                                   0, trig, var),
                                   starts, stops, types, tr)
       \/ \E n \in {MaxSliceNum, MaxSliceNum + 1}, ver \in {0, 1} :
             content = InfoContent(6400, [FixtureFlags EXCEPT !.version = ver],
                                   Zeros(n), Zeros(n), Zeros(n), FixtureTransients)
    /\ python_bytes = None /\ firmware_bytes = None
    /\ manual_args = None /\ manual_ret = None
    /\ plan_args = None /\ plan_ret = None
    /\ flags_val = None /\ splice_val = None
    /\ normalized = None /\ renormalized = None

BuildPayload ==
    /\ content # None /\ python_bytes = None
    /\ python_bytes' = build_payload(content)
    /\ UNCHANGED <<manual_args, manual_ret, plan_args, plan_ret, content,
                   firmware_bytes, flags_val, splice_val, normalized, renormalized>>
    /\ UNCHANGED build_vars

PackLikeFirmware ==
    /\ content # None /\ firmware_bytes = None
    /\ firmware_bytes' = pack_like_firmware(content)
    /\ UNCHANGED <<manual_args, manual_ret, plan_args, plan_ret, content,
                   python_bytes, flags_val, splice_val, normalized, renormalized>>
    /\ UNCHANGED build_vars

NextCodec == BuildPayload \/ PackLikeFirmware

SpecCodec == InitCodec /\ [][NextCodec]_vars

\* _pack_flags and _pack_splice on their own, over wider field values.
InitFlags ==
    /\ BuildIdle
    /\ \E bpm \in {-1, 155, 1023}, pm \in {-1, 5, 8}, os \in BOOLEAN, tm \in BOOLEAN,
          ov \in BOOLEAN, nc \in {0, 2}, ver \in {-1, 1, 128}, res \in {-1, 3, 512},
          trig \in {-1, 24, 32768}, var \in BOOLEAN :
          content = [Fixture EXCEPT
                        !.flags = InfoFlags(bpm, pm, os, tm, ov, nc, ver, res, trig, var)]
    /\ flags_val = None /\ splice_val = None
    /\ manual_args = None /\ manual_ret = None
    /\ plan_args = None /\ plan_ret = None
    /\ python_bytes = None /\ firmware_bytes = None
    /\ normalized = None /\ renormalized = None

IntResult(w) == [kind |-> "int", word |-> w]

PackFlags ==
    /\ content # None /\ flags_val = None
    /\ flags_val' = IntResult(pack_flags(content.flags))
    /\ UNCHANGED <<manual_args, manual_ret, plan_args, plan_ret, content, python_bytes,
                   firmware_bytes, splice_val, normalized, renormalized>>
    /\ UNCHANGED build_vars

PackSplice ==
    /\ content # None /\ splice_val = None
    /\ splice_val' = IntResult(pack_splice(content.flags))
    /\ UNCHANGED <<manual_args, manual_ret, plan_args, plan_ret, content, python_bytes,
                   firmware_bytes, flags_val, normalized, renormalized>>
    /\ UNCHANGED build_vars

NextFlags == PackFlags \/ PackSplice

SpecFlags == InitFlags /\ [][NextFlags]_vars

\* _normalize_transients on its own: a list of up to MaxLevels levels, one of
\* them an edge, a run of one value and another edge.
RawValues == {-16, 0, 15, 16, 17, 1048575, 1048576}
LevelEdges == {<<>>, <<0>>, <<-16>>, <<15>>, <<16>>, <<1048575>>, <<1048576>>,
               <<32, 0, 48>>}
RunLengths == {0, 1, MAX_TRANSIENTS - 1, MAX_TRANSIENTS, MAX_TRANSIENTS + 1}
RichLevels == {pre \o [i \in 1..n |-> v] \o post :
                  pre \in LevelEdges, post \in LevelEdges, v \in RawValues,
                  n \in RunLengths}

InitNorm ==
    /\ BuildIdle
    /\ \E n \in 0..MaxLevels, pos \in 1..MaxLevels, rich \in RichLevels :
          /\ pos <= Max(n, 1)
          /\ content = [Fixture EXCEPT
                           !.transients = [i \in 1..n |-> IF i = pos THEN rich
                                                         ELSE <<16 * i>>]]
    /\ normalized = None /\ renormalized = None
    /\ manual_args = None /\ manual_ret = None
    /\ plan_args = None /\ plan_ret = None
    /\ python_bytes = None /\ firmware_bytes = None
    /\ flags_val = None /\ splice_val = None

LevelsResult(l) == [kind |-> "levels", levels |-> l]
Times16(levels) == [i \in 1..Len(levels) |-> [j \in 1..Len(levels[i]) |-> 16 * levels[i][j]]]

NormalizeTransients ==
    /\ content # None /\ normalized = None
    /\ normalized' = LevelsResult(normalize_transients(content.transients))
    /\ UNCHANGED <<manual_args, manual_ret, plan_args, plan_ret, content, python_bytes,
                   firmware_bytes, flags_val, splice_val, renormalized>>
    /\ UNCHANGED build_vars

\* The output, scaled back by 16, normalized again.
Renormalize ==
    /\ normalized # None /\ renormalized = None
    /\ renormalized' = LevelsResult(normalize_transients(Times16(normalized.levels)))
    /\ UNCHANGED <<manual_args, manual_ret, plan_args, plan_ret, content, python_bytes,
                   firmware_bytes, flags_val, splice_val, normalized>>
    /\ UNCHANGED build_vars

NextNorm == NormalizeTransients \/ Renormalize

SpecNorm == InitNorm /\ [][NextNorm]_vars

(***************************************************************************)
(* Claims about the planners.                                              *)
(***************************************************************************)
ManualPlanned == manual_ret # None /\ manual_ret.kind = "plan"

\* C1: every plan returned by plan_manual_slices for total_length >= 1 is
\* sorted by start and non-overlapping: consecutive slices a, b have
\* a.stop <= b.start, also when starts are clamped to the buffer.
C1_SortedNonOverlapping ==
    (ManualPlanned /\ manual_args.total_length >= 1) =>
        \A i \in 1..(Len(manual_ret.slices) - 1) :
            manual_ret.slices[i].stop <= manual_ret.slices[i + 1].start

PlanReturned == plan_ret # None /\ plan_ret.kind = "plan"

\* C2: every plan returned by plan_slices (either strategy) starts its first
\* slice at 0 and stops its last slice at the buffer length.
C2_CoversBuffer ==
    PlanReturned =>
        /\ plan_ret.slices[1].start = 0
        /\ plan_ret.slices[Len(plan_ret.slices)].stop = Len(plan_args.signal.chan0)

\* The sample ranges of two resolved entries overlap.
EntriesOverlap(e1, e2, sr) ==
    Max(MsToSamples(e1.start_ms, sr), MsToSamples(e2.start_ms, sr))
        < Min(MsToSamples(e1.end_ms, sr), MsToSamples(e2.end_ms, sr))

C10_Entries == {<<[start_ms |-> 0, end_ms |-> 100], [start_ms |-> 50, end_ms |-> 150]>>,
                <<[start_ms |-> 50, end_ms |-> 150], [start_ms |-> 0, end_ms |-> 100]>>}

\* C10: the entries {0,100} and {50,150} at sample_rate 1000 raise the
\* ordering/overlap error in either order and for every buffer length, and no
\* accepted config holds two entries whose sample ranges overlap.
C10_OverlapRejected ==
    manual_ret # None =>
        /\ (manual_args.slice_cfg \in C10_Entries /\ manual_args.sample_rate = 1000) =>
               manual_ret = SliceConfigError("Manual slices must be non-overlapping and ordered")
        /\ manual_ret.kind = "plan" =>
               \A i, j \in 1..Len(manual_args.slice_cfg) :
                   i # j => ~EntriesOverlap(manual_args.slice_cfg[i],
                                            manual_args.slice_cfg[j],
                                            manual_args.sample_rate)

(***************************************************************************)
(* Claims about the codec.                                                 *)
(***************************************************************************)
Built == python_bytes # None
BuiltBytes == Built /\ python_bytes.kind = "bytes"

SliceArraysValid(c) ==
    /\ Len(c.slice_starts) = Len(c.slice_stops)
    /\ Len(c.slice_stops) = Len(c.slice_types)
    /\ Len(c.slice_starts) <= 255

\* C3: for every InfoContent with equal-length slice arrays of at most 255
\* entries, build_payload and the reference writer pack_like_firmware give
\* the same result, byte for byte.
C3_MatchesFirmware ==
    (Built /\ firmware_bytes # None /\ SliceArraysValid(content)) =>
        python_bytes = firmware_bytes

\* Little-endian decoding of payload bytes (1-based offset i).
U16(b, i) == b[i] + 256 * b[i + 1]
U32(b, i) == U16(b, i) + 65536 * U16(b, i + 2)

\* What the fixture's payload holds besides the flags word: splice word 24,
\* slice_num 1, transient counts [2, 1, 0], transient payload [30, 60, 75].
FixtureFields(b) ==
    /\ Len(b) >= 32
    /\ U16(b, 9) = 24
    /\ b[11] = 1
    /\ <<U16(b, 21), U16(b, 23), U16(b, 25)>> = <<2, 1, 0>>
    /\ <<U16(b, 27), U16(b, 29), U16(b, 31)>> = <<30, 60, 75>>

FixtureFlagsWord(b) == IF Len(b) >= 8 /\ b[8] < 128 THEN U32(b, 5) ELSE -1

\* C4 as stated: for the fixture build_payload produces the flags word
\* 77979, which is 0x1305B, the splice word 24, slice_num 1, transient counts
\* [2, 1, 0] and transient payload [30, 60, 75].
C4_FixtureWordsAsStated ==
    (content = Fixture /\ Built) =>
        /\ python_bytes.kind = "bytes"
        /\ FixtureFlagsWord(python_bytes.bytes) = 77979
        /\ FixtureFlagsWord(python_bytes.bytes) = 1 * 16^4 + 3 * 16^3 + 0 * 16^2 + 5 * 16 + 11
        /\ FixtureFields(python_bytes.bytes)

\* C4, amended: for the fixture build_payload produces the flags word 77979,
\* which is 0x1309B, the splice word 24, slice_num 1, transient counts
\* [2, 1, 0] and transient payload [30, 60, 75].
C4_FixtureWords ==
    (content = Fixture /\ Built) =>
        /\ python_bytes.kind = "bytes"
        /\ FixtureFlagsWord(python_bytes.bytes) = 77979
        /\ FixtureFlagsWord(python_bytes.bytes) = 1 * 16^4 + 3 * 16^3 + 0 * 16^2 + 9 * 16 + 11
        /\ FixtureFields(python_bytes.bytes)

C4_Witness == content = Fixture /\ BuiltBytes /\ python_bytes.bytes[5] = 155

\* C5 as stated: the fixture's payload is 35 bytes long.
C5_FixtureLengthAsStated ==
    (content = Fixture /\ Built) =>
        python_bytes.kind = "bytes" /\ Len(python_bytes.bytes) = 35

\* C5, amended: the fixture's payload is 4+4+2+1 + (4+4+1) + 6 + 3*2 = 32
\* bytes long.
C5_FixtureLength ==
    (content = Fixture /\ Built) =>
        python_bytes.kind = "bytes" /\ Len(python_bytes.bytes) = 32

C5_Witness ==
    content = Fixture /\ BuiltBytes /\ firmware_bytes # None
        /\ firmware_bytes.kind = "bytes"
        /\ Len(firmware_bytes.bytes) = Len(python_bytes.bytes)

\* The normalization rule, stated per level: the raw values that are > 0 and
\* whose value // 16 lies in 1..65535, scaled, in input order, the first 16.
Keeps(raw) == raw > 0 /\ raw \div 16 >= 1 /\ raw \div 16 <= 65535
KeptScaled(level) ==
    LET kept == SelectSeq(level, Keeps) IN [j \in 1..Len(kept) |-> kept[j] \div 16]
ExpectedLevel(levels, i) ==
    IF i > Len(levels) THEN <<>>
    ELSE LET ks == KeptScaled(levels[i]) IN SubSeq(ks, 1, Min(16, Len(ks)))
ExpectedLevelSizes(levels) ==
    Len(ExpectedLevel(levels, 1)) + Len(ExpectedLevel(levels, 2))
        + Len(ExpectedLevel(levels, 3))

ExpectedLength(c) ==
    11 + 9 * Len(c.slice_starts)
       + (IF c.flags.version >= 1 THEN 6 + 2 * ExpectedLevelSizes(c.transients) ELSE 0)

\* C6: whenever build_payload returns, the payload is 11 + 9*slice_num bytes
\* long, plus 6 + 2*(sum of the normalized level sizes) when version >= 1; the
\* size-mismatch error is never raised; and the same input with version >= 1
\* instead of 0 gives a payload exactly 6 + 2*(sum of level sizes) longer.
C6_LengthMatches ==
    Built =>
        /\ python_bytes # ValueError("payload size does not match expected struct size")
        /\ python_bytes.kind = "bytes" =>
               Len(python_bytes.bytes) = ExpectedLength(content)
        /\ (python_bytes.kind = "bytes" /\ content.flags.version = 0) =>
               \A v \in {1, 2, 127, 200} :
                   LET later == build_payload([content EXCEPT !.flags.version = v])
                   IN  /\ later.kind = "bytes"
                       /\ Len(later.bytes) = Len(python_bytes.bytes) + 6
                              + 2 * ExpectedLevelSizes(content.transients)

C6_Witness ==
    /\ BuiltBytes /\ content.flags.version >= 1
    /\ Len(content.slice_starts) >= 1
    /\ Len(content.transients) > 3
    /\ ExpectedLevelSizes(content.transients) = 2

Normalized == normalized # None

\* C7: _normalize_transients returns exactly 3 levels, each of at most 16
\* entries, every entry an integer in 1..65535; level i holds raw // 16 of the
\* kept raw values of input level i in input order, where raw values <= 0 and
\* values scaling to 0 or above 65535 are dropped and do not count toward the
\* 16.
C7_NormalizedShape ==
    Normalized =>
        /\ Len(normalized.levels) = 3
        /\ \A i \in 1..3 :
              /\ Len(normalized.levels[i]) <= 16
              /\ \A j \in 1..Len(normalized.levels[i]) :
                     normalized.levels[i][j] \in 1..65535
              /\ normalized.levels[i] = ExpectedLevel(content.transients, i)

C7_Witness ==
    /\ Normalized
    /\ \E i \in 1..Min(3, Len(content.transients)) :
          /\ Len(normalized.levels[i]) = 16
          /\ Len(content.transients[i]) > 17
          /\ content.transients[i][1] = 0
          /\ content.transients[i][Len(content.transients[i])] = 1048576

\* C8: normalizing the normalized output scaled back by 16 returns the same
\* three levels.
C8_Idempotent ==
    renormalized # None => renormalized = normalized

C8_Witness ==
    /\ renormalized # None
    /\ Len(content.transients) > 3
    /\ \E i \in 1..3 : Len(renormalized.levels[i]) = 16
    /\ \E i \in 1..3 : Len(content.transients[i]) > Len(renormalized.levels[i])

Clamp(x, lo, hi) == IF x < lo THEN lo ELSE IF x > hi THEN hi ELSE x

\* C9: for all integer field values _pack_flags returns a word below 2^32 in
\* which (word >> offset) & (2^bits - 1) recovers each clamped field: bpm
\* [0,510] at bit 0 (9 bits), play_mode [0,7] at bit 9 (3 bits), one_shot,
\* tempo_match, oversampling, num_channels (nonzero -> 1) at bits 12..15,
\* version [0,127] at bit 16 (7 bits), reserved [0,511] at bit 23 (9 bits).
C9_FlagsFields ==
    flags_val # None =>
        LET w == flags_val.word
            f == content.flags
        IN  /\ Len(w) <= 32
            /\ Field(w, 0, 9) = Clamp(f.bpm, 0, 510)
            /\ Field(w, 9, 3) = Clamp(f.play_mode, 0, 7)
            /\ Field(w, 12, 1) = (IF f.one_shot THEN 1 ELSE 0)
            /\ Field(w, 13, 1) = (IF f.tempo_match THEN 1 ELSE 0)
            /\ Field(w, 14, 1) = (IF f.oversampling THEN 1 ELSE 0)
            /\ Field(w, 15, 1) = (IF f.num_channels = 0 THEN 0 ELSE 1)
            /\ Field(w, 16, 7) = Clamp(f.version, 0, 127)
            /\ Field(w, 23, 9) = Clamp(f.reserved, 0, 511)

C9_Witness ==
    /\ flags_val # None
    /\ content.flags.bpm > 510 /\ content.flags.play_mode > 7
    /\ content.flags.version > 127 /\ content.flags.reserved > 511
    /\ content.flags.num_channels = 2 /\ content.flags.one_shot
    /\ Len(flags_val.word) = 32

(***************************************************************************)
(* Further claims about the codec and the planners.                        *)
(***************************************************************************)
\* The field values that struct.pack accepts: size_bytes as uint32 and every
\* slice_type as int8 (slice bounds of the model always fit int32).
FieldsInRange(c) ==
    /\ c.size_bytes >= 0
    /\ \A i \in 1..Len(c.slice_types) : c.slice_types[i] \in -128..127

\* C11: build_payload raises the struct-consistency error (ValueError), and
\* returns no bytes, exactly when the three slice arrays differ in length or
\* hold more than 255 entries; with equal lengths of 0..255 entries and
\* in-range field values it returns a payload whose byte at offset 10 is that
\* length.
C11_StructConsistency ==
    Built =>
        /\ python_bytes.kind = "ValueError" <=> ~SliceArraysValid(content)
        /\ (SliceArraysValid(content) /\ FieldsInRange(content)) =>
               /\ python_bytes.kind = "bytes"
               /\ python_bytes.bytes[11] = Len(content.slice_starts)

C11_Witness ==
    /\ BuiltBytes
    /\ Len(content.slice_starts) = 255
    /\ python_bytes.bytes[11] = 255

\* The starts the explicit strategy is specified to use: the offsets as
\* sample indices together with 0, ascending, without duplicates.
ExplicitStartsSpecified(a) ==
    SortedSet({ToSamples(a.explicit_seconds[i], a.sample_rate) :
                  i \in 1..Len(a.explicit_seconds)} \cup {0})

Truncated(s, n) == SubSeq(s, 1, Min(Len(s), n))

\* C15: under the explicit strategy, for every explicit_seconds list (empty,
\* with duplicates, with negative offsets) the slice starts used are the
\* offsets as sample indices, deduplicated and sorted ascending with 0
\* present, truncated to target_slices, and transient detection is not
\* consulted.
C15_ExplicitStarts ==
    (plan_ret # None /\ plan_args.strategy = "explicit") =>
        /\ UsesExplicit(plan_args)
        /\ Truncated(PlanStarts(plan_args), plan_args.target_slices)
               = Truncated(ExplicitStartsSpecified(plan_args), plan_args.target_slices)

InsideBuffer(slices, total) ==
    \A i \in 1..Len(slices) :
        0 <= slices[i].start /\ slices[i].start < slices[i].stop
            /\ slices[i].stop <= total

\* C17: every slice of every plan returned by plan_manual_slices or
\* plan_slices satisfies 0 <= start < stop <= total buffer length, for every
\* total length >= 0.
C17_SlicesInsideBuffer ==
    /\ ManualPlanned => InsideBuffer(manual_ret.slices, manual_args.total_length)
    /\ PlanReturned => InsideBuffer(plan_ret.slices, Len(plan_args.signal.chan0))

(***************************************************************************)
(* build_patch.py: slice labels                                            *)
(***************************************************************************)
MaxIdx == 2              \* slice indices 0..MaxIdx are classified

TYPE_DEFAULT == 0
TYPE_KICK == 1
TYPE_SNARE == 2
TYPE_TRANSIENT == 3
TYPE_RANDOM == 4

\* Python values of a config: None is None above; a str, an int, a list.
PyStr(x) == [kind |-> "str", str |-> x]
PyInt(n) == [kind |-> "int", int |-> n]
PyList(items) == [kind |-> "list", items |-> items]
TypeError(msg) == [kind |-> "TypeError", msg |-> msg]

\* dict.get(key, default) on a dict held as a record.
Get(d, key, default) == IF key \in DOMAIN d THEN d[key] ELSE default

\* Lines 76-83: None -> [], "all" -> "all", a number -> [int], else a list.
as_list(value) ==
    IF value = None THEN PyList(<<>>)
    ELSE IF value = PyStr("all") THEN PyStr("all")
    ELSE IF value.kind = "int" THEN PyList(<<value.int>>)
    ELSE PyList(value.items)

labels_from_config(cfg) ==
    LET cfg_labels == Get(cfg, "labels", [x \in {} |-> None]) IN
    [kick      |-> as_list(Get(cfg_labels, "kick", PyList(<<>>))),
     snare     |-> as_list(Get(cfg_labels, "snare", PyList(<<>>))),
     transient |-> as_list(Get(cfg_labels, "transient", PyList(<<>>))),
     random    |-> as_list(Get(cfg_labels, "random", PyList(<<>>)))]

\* Python's `idx in label`: membership in a list; on a str the int operand
\* raises TypeError.
In(idx, label) ==
    IF label.kind = "str" THEN TypeError("'in <string>' requires string as left operand")
    ELSE [kind |-> "bool", bool |-> InSeq(idx, label.items)]

\* _slice_type with the snare list consulted before the kick list.
slice_type_snare_first(idx, slice_labels) ==
    LET in_snare == In(idx, slice_labels.snare)
        in_kick == In(idx, slice_labels.kick)
        in_transient == In(idx, slice_labels.transient)
    IN  IF in_snare.kind = "TypeError" THEN in_snare
        ELSE IF in_snare.bool THEN PyInt(TYPE_SNARE)
        ELSE IF in_kick.kind = "TypeError" THEN in_kick
        ELSE IF in_kick.bool THEN PyInt(TYPE_KICK)
        ELSE IF in_transient.kind = "TypeError" THEN in_transient
        ELSE IF in_transient.bool THEN PyInt(TYPE_TRANSIENT)
        ELSE IF slice_labels.random = PyStr("all") THEN PyInt(TYPE_RANDOM)
        ELSE IF InSeq(idx, slice_labels.random.items) THEN PyInt(TYPE_RANDOM)
        ELSE PyInt(TYPE_DEFAULT)

\* Lines 93-107.
slice_type(idx, slice_labels) ==
    LET in_kick == In(idx, slice_labels.kick)
        in_snare == In(idx, slice_labels.snare)
        in_transient == In(idx, slice_labels.transient)
    IN  IF in_kick.kind = "TypeError" THEN in_kick
        ELSE IF in_kick.bool THEN PyInt(TYPE_KICK)
        ELSE IF in_snare.kind = "TypeError" THEN in_snare
        ELSE IF in_snare.bool THEN PyInt(TYPE_SNARE)
        ELSE IF in_transient.kind = "TypeError" THEN in_transient
        ELSE IF in_transient.bool THEN PyInt(TYPE_TRANSIENT)
        ELSE IF slice_labels.random = PyStr("all") THEN PyInt(TYPE_RANDOM)
        ELSE IF InSeq(idx, slice_labels.random.items) THEN PyInt(TYPE_RANDOM)
        ELSE PyInt(TYPE_DEFAULT)

\* The values a label of the config takes: absent, None, "all", a bare index,
\* and lists (empty, unsorted, with a repeated index).
LabelValues == {None, PyStr("all"), PyInt(1), PyList(<<>>), PyList(<<0>>),
                PyList(<<2, 0>>), PyList(<<1, 1>>)}

LabelMaps ==
    {[kick |-> k, snare |-> s, transient |-> t, random |-> r] :
        k \in LabelValues, s \in LabelValues, t \in LabelValues, r \in LabelValues}
    \cup {[kick |-> k, random |-> r] : k \in LabelValues, r \in LabelValues}

InitLabels ==
    /\ ToolsIdle
    /\ \E idx \in 0..MaxIdx, m \in LabelMaps :
          label_args = [idx |-> idx, cfg |-> [labels |-> m]]
    /\ labels = None /\ slice_type_ret = None
    /\ export_args = None /\ export_ret = None
    /\ build_cfg = None /\ build = None /\ fs = None

LabelsFromConfig ==
    /\ label_args # None /\ labels = None
    /\ labels' = labels_from_config(label_args.cfg)
    /\ UNCHANGED <<label_args, slice_type_ret, export_args, export_ret, build_cfg, build, fs>>
    /\ UNCHANGED tool_vars

SliceType ==
    /\ labels # None /\ slice_type_ret = None
    /\ slice_type_ret' = slice_type(label_args.idx, labels)
    /\ UNCHANGED <<label_args, labels, export_args, export_ret, build_cfg, build, fs>>
    /\ UNCHANGED tool_vars

NextLabels == LabelsFromConfig \/ SliceType

SpecLabels == InitLabels /\ [][NextLabels]_vars

\* C12: for every slice index and every label map whose values are index
\* lists (random may also be "all"), _slice_type returns kick if the index is
\* in the kick list, else snare if in the snare list, else transient if in the
\* transient list, else random if random is "all" or contains the index, else
\* default; an index in the kick list yields kick whatever the other labels
\* contain.
IndexLists(m) ==
    /\ m.kick.kind = "list" /\ m.snare.kind = "list" /\ m.transient.kind = "list"
    /\ m.random.kind = "list" \/ m.random = PyStr("all")

Listed(idx, label) == label.kind = "list" /\ \E i \in 1..Len(label.items) : label.items[i] = idx

C12_LabelPriority ==
    (slice_type_ret # None /\ IndexLists(labels)) =>
        LET idx == label_args.idx IN
        /\ slice_type_ret.kind = "int"
        /\ Listed(idx, labels.kick) => slice_type_ret.int = TYPE_KICK
        /\ (~Listed(idx, labels.kick) /\ Listed(idx, labels.snare)) =>
               slice_type_ret.int = TYPE_SNARE
        /\ (~Listed(idx, labels.kick) /\ ~Listed(idx, labels.snare)
              /\ Listed(idx, labels.transient)) => slice_type_ret.int = TYPE_TRANSIENT
        /\ (~Listed(idx, labels.kick) /\ ~Listed(idx, labels.snare)
              /\ ~Listed(idx, labels.transient)) =>
               slice_type_ret.int = IF labels.random = PyStr("all") \/ Listed(idx, labels.random)
                                    THEN TYPE_RANDOM ELSE TYPE_DEFAULT

\* An index listed under kick, snare and transient, with random "all", is a kick.
C12_Witness ==
    /\ slice_type_ret # None /\ IndexLists(labels)
    /\ Listed(label_args.idx, labels.kick) /\ Listed(label_args.idx, labels.snare)
    /\ Listed(label_args.idx, labels.transient) /\ labels.random = PyStr("all")
    /\ slice_type_ret = PyInt(TYPE_KICK)

(***************************************************************************)
(* slicing.py: export_slices                                               *)
(***************************************************************************)
MaxPlanned == 2          \* slices of a plan handed to export_slices

DEFAULT_FADE_MS == 0
DEFAULT_GAIN_DB == 0

EmptyDict == [x \in {} |-> None]

\* signal[start:stop] on a buffer of n frames: the frames Python copies.
SliceIndex(i, n) == IF i < 0 THEN Max(0, i + n) ELSE Min(i, n)
CopiedRange(slc, n) ==
    LET from == SliceIndex(slc.start, n)
        to == SliceIndex(slc.stop, n)
    IN  [from |-> from, to |-> Max(from, to)]

\* Lines 202-212: the length of the ramp applied, 0 when none is.
FadeLen(fade_ms, data_len, sample_rate) ==
    IF fade_ms > 0
    THEN LET fade == Min(data_len, MsToSamples(fade_ms, sample_rate)) IN
         IF fade > 1 THEN fade ELSE 0
    ELSE 0

\* Lines 214, 216: the file name "{id}.{variation}.wav".
WavName(id, variation) == [id |-> id, variation |-> variation, ext |-> "wav"]

\* Lines 196-219: the file written for one slice: the frames copied from the
\* signal and the gain and ramps applied to them.
RenderSlice(total_length, sample_rate, slc, opts, name) ==
    LET range == CopiedRange(slc, total_length)
        data_len == range.to - range.from
    IN  [name     |-> name,
         from     |-> range.from,
         to       |-> range.to,
         gain_db  |-> Get(opts, "gain_db", DEFAULT_GAIN_DB),
         fade_in  |-> FadeLen(Get(opts, "fade_in_ms", DEFAULT_FADE_MS), data_len, sample_rate),
         fade_out |-> FadeLen(Get(opts, "fade_out_ms", DEFAULT_FADE_MS), data_len, sample_rate)]

\* Lines 216, 221 with the identifier counted from base_id + 1.
SliceIdOneBased(base_id, local_idx) == base_id + local_idx + 1

\* Lines 216, 221: base_id + local_idx, local_idx counted from 0.
SliceId(base_id, local_idx) == base_id + local_idx

\* What the call returns or raises (ret) and the files it has written.
export_slices(total_length, sample_rate, plan, base_id, variation, slice_settings) ==
    LET n == Len(plan.slices)
        settings == IF slice_settings # None THEN slice_settings.items
                    ELSE [i \in 1..n |-> EmptyDict]
    IN  IF Len(settings) # n
        THEN [ret   |-> SliceConfigError("slice_settings length must match planned slices"),
              files |-> <<>>]
        ELSE [ret   |-> PyList([i \in 1..n |->
                           [id   |-> SliceId(base_id, i - 1),
                            path |-> WavName(SliceId(base_id, i - 1), variation)]]),
              files |-> [i \in 1..n |->
                           RenderSlice(total_length, sample_rate, plan.slices[i], settings[i],
                                       WavName(SliceId(base_id, i - 1), variation))]]

\* Plans of 0..MaxPlanned slices of two frames each, the buffer one frame
\* longer than the last stop.
ExportPlans == {SlicePlan([i \in 1..n |-> Slice(2 * (i - 1), 2 * i)], 1000, TRUE) :
                   n \in 0..MaxPlanned}
ExportOptions == {EmptyDict, [gain_db |-> -6], [fade_out_ms |-> 1],
                  [gain_db |-> 0, fade_in_ms |-> 1, fade_out_ms |-> 3]}
ExportSettings == {None} \cup {PyList(st) : st \in SeqsUpTo(ExportOptions, MaxPlanned + 1)}
BaseIds == {0, 7}
Variations == {0, 1}

InitExport ==
    /\ ToolsIdle
    /\ \E plan \in ExportPlans, st \in ExportSettings, b \in BaseIds, v \in Variations :
          export_args = [total_length |-> 2 * MaxPlanned + 1, sample_rate |-> plan.sample_rate,
                         plan |-> plan, base_id |-> b, variation |-> v,
                         slice_settings |-> st]
    /\ export_ret = None
    /\ label_args = None /\ labels = None /\ slice_type_ret = None
    /\ build_cfg = None /\ build = None /\ fs = None

ExportSlices ==
    /\ export_args # None /\ export_ret = None
    /\ export_ret' = export_slices(export_args.total_length, export_args.sample_rate,
                                   export_args.plan, export_args.base_id,
                                   export_args.variation, export_args.slice_settings)
    /\ UNCHANGED <<label_args, labels, slice_type_ret, export_args, build_cfg, build, fs>>
    /\ UNCHANGED tool_vars

NextExport == ExportSlices

SpecExport == InitExport /\ [][NextExport]_vars

\* C13: for a plan of n slices and a settings list that is absent or of
\* length n, export_slices emits exactly n outputs in plan order and returns
\* n pairs whose identifier for the slice at local index i is base_id + i, so
\* that identifiers are distinct and strictly increasing; when the settings
\* list length differs from n it raises the slice-configuration error before
\* emitting any slice.
SettingsMatch(a) ==
    a.slice_settings = None \/ Len(a.slice_settings.items) = Len(a.plan.slices)

C13_ExportIdentifiers ==
    export_ret # None =>
        LET n == Len(export_args.plan.slices)
            written == export_ret.ret.items
            files == export_ret.files
        IN  /\ SettingsMatch(export_args) =>
                /\ export_ret.ret.kind = "list"
                /\ Len(written) = n /\ Len(files) = n
                /\ \A i \in 1..n :
                      /\ written[i].id = export_args.base_id + (i - 1)
                      /\ written[i].path = files[i].name
                      /\ files[i].name.id = written[i].id
                      /\ files[i].from = export_args.plan.slices[i].start
                      /\ files[i].to = export_args.plan.slices[i].stop
                /\ \A i, j \in 1..n : i < j => written[i].id < written[j].id
            /\ ~SettingsMatch(export_args) =>
                /\ export_ret.ret.kind = "SliceConfigError"
                /\ files = <<>>

\* Two slices exported from base 7 with one option entry each: ids 7 and 8.
C13_Witness ==
    /\ export_ret # None /\ export_args.slice_settings # None
    /\ Len(export_args.plan.slices) = 2 /\ export_args.base_id = 7
    /\ export_ret.ret.kind = "list"
    /\ export_ret.ret.items[1].id = 7 /\ export_ret.ret.items[2].id = 8
    /\ Len(export_ret.files) = 2

(***************************************************************************)
(* build_patch.py: build_from_config                                       *)
(***************************************************************************)
FileNotFoundError == [kind |-> "FileNotFoundError"]

\* Slice.length (slicing.py).
Length(slc) == Max(0, slc.stop - slc.start)

\* Lines 137-142: None when the entry has no (or empty) transients_ms.
manual_transients(slice_cfg, sample_rate) ==
    LET times == Get(slice_cfg, "transients_ms", None) IN
    IF times = None \/ times = PyList(<<>>) THEN None
    ELSE LET samples == [i \in 1..Len(times.items) |-> MsToSamples(times.items[i], sample_rate)]
         IN  PyList(<<SubSeq(samples, 1, Min(Len(samples), MAX_TRANSIENTS)), <<>>, <<>>>>)

\* Lines 110-124: the per_slice_ms entry of the slice, as level 1.
transients_for_slice(slice_idx, cfg, sample_rate) ==
    LET per_slice == Get(Get(cfg, "transients", EmptyDict), "per_slice_ms", EmptyDict)
        entry == Get(per_slice, slice_idx, <<>>)
        level1 == [i \in 1..Len(entry) |-> MsToSamples(entry[i], sample_rate)]
    IN  PyList(<<SubSeq(level1, 1, Min(Len(level1), MAX_TRANSIENTS)), <<>>, <<>>>>)

\* The dataclass constructor called with keyword arguments: every field
\* without a default is required.
InfoContentInit(kwargs) ==
    IF {"size_bytes", "flags", "slice_starts", "slice_stops", "slice_types"}
           \subseteq DOMAIN kwargs
    THEN InfoContent(kwargs.size_bytes, kwargs.flags, kwargs.slice_starts,
                     kwargs.slice_stops, kwargs.slice_types,
                     Get(kwargs, "transients", <<<<>>, <<>>, <<>>>>))
    ELSE TypeError("InfoContent.__init__() missing required argument")

\* Lines 148-162: InfoFlags from cfg["flags"], with the defaults of the call.
FlagsFromConfig(cfg) ==
    LET flags_cfg == Get(cfg, "flags", EmptyDict) IN
    InfoFlags(Get(flags_cfg, "bpm", Get(cfg, "bpm", 120)), Get(flags_cfg, "play_mode", 0),
              Get(flags_cfg, "one_shot", TRUE), Get(flags_cfg, "tempo_match", TRUE),
              Get(flags_cfg, "oversampling", FALSE), Get(flags_cfg, "num_channels", 0),
              Get(flags_cfg, "version", 1), Get(flags_cfg, "reserved", 0),
              Get(flags_cfg, "splice_trigger", 24), Get(flags_cfg, "splice_variable", FALSE))

\* load_audio: the file's frames, collapsed to one channel when force_mono.
\* The files of the model carry the same samples on every channel.
load_audio(file, force_mono) ==
    [chan0 |-> file.chan0, channels |-> IF force_mono THEN 1 ELSE file.channels]

\* Lines 183-203: the manual planner when cfg["slices"] is non-empty, the
\* heuristic planner otherwise.
BuildPlanOf(cfg, signal, sr) ==
    LET slice_settings == Get(cfg, "slices", <<>>)
        slicing_cfg == Get(cfg, "slicing", EmptyDict)
    IN  IF slice_settings # <<>>
        THEN plan_manual_slices(slice_settings, sr, Len(signal.chan0), signal.channels = 1)
        ELSE plan_slices(PlanArgs(signal, sr, Get(slicing_cfg, "strategy", "transient"),
                                  Get(slicing_cfg, "target_slices", 16),
                                  Get(slicing_cfg, "threshold", <<1, 40>>),
                                  Get(slicing_cfg, "min_gap_ms", 40),
                                  Get(slicing_cfg, "window_ms", 12),
                                  Get(slicing_cfg, "explicit_seconds", <<>>)))

\* Line 231: "{slice_idx}.{variation}.wav.info".
InfoName(id, variation) == [id |-> id, variation |-> variation, ext |-> "wav.info"]

\* Lines 219-229: the InfoContent of the written slice at position i (from 1).
SliceContent(b, cfg, i) ==
    LET slice_settings == Get(cfg, "slices", <<>>)
        slice_idx == b.written.items[i].id
        manual == IF slice_settings # <<>>
                  THEN manual_transients(slice_settings[i], b.sample_rate)
                  ELSE None
        transients == IF manual # None THEN manual
                      ELSE transients_for_slice(slice_idx - b.start_index, cfg, b.sample_rate)
    IN  InfoContentInit(
            [flags        |-> b.flags,
             slice_starts |-> <<0>>,
             slice_stops  |-> <<Length(b.plan.slices[slice_idx - b.start_index + 1])>>,
             slice_types  |-> <<b.slice_types[slice_idx - b.start_index + 1]>>,
             transients   |-> transients.items])

\* Lines 218-233: the loop over the written slices from position i on; it
\* stops at the first exception.  info holds the .wav.info files written.
RECURSIVE EncodeFrom(_, _, _, _)
EncodeFrom(b, cfg, i, info) ==
    IF i > Len(b.written.items) THEN [exc |-> None, info |-> info]
    ELSE LET c == SliceContent(b, cfg, i) IN
         IF c.kind # "InfoContent" THEN [exc |-> c, info |-> info]
         ELSE LET payload == build_payload(c) IN
              IF payload.kind # "bytes" THEN [exc |-> payload, info |-> info]
              ELSE EncodeFrom(b, cfg, i + 1,
                              Append(info, [name    |-> InfoName(b.written.items[i].id, b.variation),
                                            content |-> c,
                                            payload |-> payload.bytes]))

\* Manual entries of a config: boundaries in ms with their options; the last
\* one lacks end_ms.
BuildEntries ==
    {[start_ms |-> 0, end_ms |-> 1, gain_db |-> -6],
     [start_ms |-> 1, end_ms |-> 3, transients_ms |-> PyList(<<1>>)],
     [start_ms |-> 1, end_ms |-> 2, gain_db |-> 3, fade_out_ms |-> 2],
     [start_ms |-> 2, end_ms |-> 3],
     [start_ms |-> 2]}

\* cfg["slicing"]: the defaults, and explicit offsets.
BuildSlicing ==
    {EmptyDict,
     [strategy |-> "explicit", target_slices |-> MaxTarget, explicit_seconds |-> <<1, 2>>]}

\* cfg["labels"]: as in the example patch, and with "all" under kick.
BuildLabels == {[kick |-> PyList(<<0>>), snare |-> PyInt(1), random |-> PyStr("all")],
                [kick |-> PyStr("all")]}

\* source.wav: missing (None), or a file of 0..MaxSigLen frames at 1000 Hz.
BuildSources ==
    {None} \cup {[chan0 |-> sig.chan0, channels |-> sig.channels, sample_rate |-> 1000] :
                    sig \in ConstSignals}

InitBuild ==
    /\ ToolsIdle
    /\ \E src \in BuildSources, slices \in SeqsUpTo(BuildEntries, MaxEntries),
          slicing \in BuildSlicing, lab \in BuildLabels, nc \in {0, 1},
          b \in BaseIds, v \in Variations :
          build_cfg = [source |-> src,
                       cfg |-> [slices  |-> slices,
                                slicing |-> slicing,
                                labels  |-> lab,
                                flags   |-> [num_channels |-> nc],
                                output  |-> [start_index |-> b, variation |-> v]]]
    /\ build = [pc |-> "plan", exc |-> None]
    /\ fs = [wav |-> <<>>, info |-> <<>>, zip |-> None]
    /\ label_args = None /\ labels = None /\ slice_type_ret = None
    /\ export_args = None /\ export_ret = None

Raised(exc) == [pc |-> "done", exc |-> exc]

\* Lines 145-203: flags, the source check, the emptied wav/ and info/
\* directories, load_audio and the plan.
BuildPlan ==
    /\ build # None /\ build.pc = "plan"
    /\ LET cfg == build_cfg.cfg
           flags == FlagsFromConfig(cfg)
           output_cfg == Get(cfg, "output", EmptyDict)
       IN  IF build_cfg.source = None
           THEN build' = Raised(FileNotFoundError) /\ UNCHANGED fs
           ELSE LET signal == load_audio(build_cfg.source, flags.num_channels = 0)
                    sr == build_cfg.source.sample_rate
                    plan == BuildPlanOf(cfg, signal, sr)
                IN  /\ fs' = [fs EXCEPT !.wav = <<>>, !.info = <<>>]
                    /\ build' = IF plan.kind # "plan" THEN Raised(plan)
                                ELSE [pc          |-> "export",
                                      exc         |-> None,
                                      flags       |-> flags,
                                      start_index |-> Get(output_cfg, "start_index", 0),
                                      variation   |-> Get(output_cfg, "variation", 0),
                                      signal      |-> signal,
                                      sample_rate |-> sr,
                                      plan        |-> plan]
    /\ UNCHANGED <<label_args, labels, slice_type_ret, export_args, export_ret, build_cfg>>
    /\ UNCHANGED tool_vars

\* Lines 205-216: the slice types, then export_slices into wav/.
BuildExport ==
    /\ build # None /\ build.pc = "export"
    /\ LET cfg == build_cfg.cfg
           slice_settings == Get(cfg, "slices", <<>>)
           slice_labels == labels_from_config(cfg)
           types == [i \in 1..Len(build.plan.slices) |-> slice_type(i - 1, slice_labels)]
           failed == {i \in 1..Len(types) : types[i].kind # "int"}
           exported == export_slices(Len(build.signal.chan0), build.sample_rate, build.plan,
                                     build.start_index, build.variation,
                                     IF slice_settings # <<>> THEN PyList(slice_settings)
                                     ELSE None)
       IN  IF failed # {}
           THEN build' = Raised(types[SetMin(failed)]) /\ UNCHANGED fs
           ELSE /\ fs' = [fs EXCEPT !.wav = exported.files]
                /\ build' = IF exported.ret.kind # "list" THEN Raised(exported.ret)
                            ELSE [build EXCEPT !.pc = "encode"]
                                     @@ [slice_types |-> [i \in 1..Len(types) |-> types[i].int],
                                         written     |-> exported.ret]
    /\ UNCHANGED <<label_args, labels, slice_type_ret, export_args, export_ret, build_cfg>>
    /\ UNCHANGED tool_vars

\* Lines 218-242: one .wav.info per written slice, then patch.zip with the
\* wav files followed by the info files.
BuildPackage ==
    /\ build # None /\ build.pc = "encode"
    /\ LET encoded == EncodeFrom(build, build_cfg.cfg, 1, <<>>) IN
       /\ fs' = [fs EXCEPT !.info = encoded.info,
                           !.zip = IF encoded.exc # None THEN @
                                   ELSE PyList([i \in 1..Len(fs.wav) |-> fs.wav[i].name]
                                               \o [i \in 1..Len(encoded.info) |->
                                                      encoded.info[i].name])]
       /\ build' = [build EXCEPT !.pc = "done", !.exc = encoded.exc]
    /\ UNCHANGED <<label_args, labels, slice_type_ret, export_args, export_ret, build_cfg>>
    /\ UNCHANGED tool_vars

NextBuild == BuildPlan \/ BuildExport \/ BuildPackage

SpecBuild == InitBuild /\ [][NextBuild]_vars

\* The build has planned and rendered its slices.
Rendered == build # None /\ "written" \in DOMAIN build

\* C14: once planning and rendering have succeeded for n slices, the build
\* constructs for each rendered slice an InfoContent carrying a size_bytes
\* and encodes it, so that it ends with exactly n .wav.info files whose
\* identifiers match one-to-one those of the rendered .wav files; the zip is
\* written only after all n have been encoded.
C14_InfoPerRenderedSlice ==
    /\ (Rendered /\ build.pc = "done") =>
          /\ Len(fs.info) = Len(fs.wav)
          /\ \A i \in 1..Len(fs.info) :
                /\ fs.info[i].name.id = fs.wav[i].name.id
                /\ fs.info[i].name.variation = fs.wav[i].name.variation
                /\ "size_bytes" \in DOMAIN fs.info[i].content
    /\ (fs # None /\ fs.zip # None) =>
          Rendered /\ Len(fs.info) = Len(build.written.items)

\* The position in the plan of the slice that config entry k defines:
\* plan_manual_slices sorts the entries by resolved start, keeping the order
\* of entries with equal starts.
PlanPosition(entries, k, sr) ==
    LET start(j) == MsToSamples(entries[j].start_ms, sr) IN
    1 + Cardinality({j \in 1..Len(entries) :
                        start(j) < start(k) \/ (start(j) = start(k) /\ j < k)})

\* C16: in a build with a manual slice list given in any order, the gain and
\* fade options and the manual transients_ms applied to an output slice are
\* those of the config entry that defined the slice's start_ms/end_ms.
C16_OptionsFollowBoundaries ==
    (Rendered /\ build_cfg.cfg.slices # <<>>) =>
        LET entries == build_cfg.cfg.slices
            sr == build.sample_rate
        IN  \A k \in 1..Len(entries) :
               LET i == PlanPosition(entries, k, sr)
                   e == entries[k]
                   f == fs.wav[i]
                   m == manual_transients(e, sr)
               IN  /\ f.gain_db = Get(e, "gain_db", DEFAULT_GAIN_DB)
                   /\ f.fade_in = FadeLen(Get(e, "fade_in_ms", DEFAULT_FADE_MS),
                                          f.to - f.from, sr)
                   /\ f.fade_out = FadeLen(Get(e, "fade_out_ms", DEFAULT_FADE_MS),
                                           f.to - f.from, sr)
                   /\ i <= Len(fs.info) =>
                         fs.info[i].content.transients
                             = IF m # None THEN m.items ELSE <<<<>>, <<>>, <<>>>>
====
